---- MODULE Spec2Model ----
(***************************************************************************)
(* terra_notebook_utils/workflows.py: the memoized metadata fetchers       *)
(* (get_submission, get_workflow), the sub-workflow discovery              *)
(* (get_all_workflows), the per-attempt cost estimation generator          *)
(* (estimate_workflow_cost) and the machine type parser                    *)
(* (_parse_machine_type).                                                  *)
(*                                                                         *)
(* Representation.  JSON strings are TLA+ strings; a key that is missing   *)
(* from a JSON object holds the value ABSENT.  A string that the code      *)
(* splits is decoded into its pieces by a table (DashSegments, WsTokens,   *)
(* DotComponents).  A Python float is a fixed-point integer with 1024      *)
(* units per 1.0 (ToFloat), so that the division by 1024 of line 129 is    *)
(* exact on every integer.  The cost collaborators of module costs are     *)
(* uninterpreted: a cost is the sequence of the estimator calls that were  *)
(* summed, each with its arguments; 0.0 is the empty sum.                  *)
(***************************************************************************)
EXTENDS Integers, Sequences, FiniteSets, TLC

VARIABLES
    \* _parse_machine_type: one call
    machine_type,        \* the argument, as its "-" separated segments
    parse_result,        \* "pending", or the call's outcome
    \* estimate_workflow_cost: one generator
    calls,               \* workflow_metadata['calls'] in iteration order
    next_attempt,        \* index of the attempt the generator handles next
    yielded,             \* the records yielded so far
    yielded_from,        \* for each yielded record, the index of its attempt
    warnings,            \* indices of the attempts logged with logger.warning
    gen_state,           \* "running", "exhausted" or "raised"
    \* the orchestration service
    graph,               \* workflow id -> the sub-workflow ids its call attempts carry
    submission_workflows,\* submission['workflows']: the workflowId of each entry, NO_ID without one
    workflow_fetches,    \* workflow id -> number of get_workflow_metadata requests served
    submission_fetches,  \* submission id -> number of get_submission requests served
    error_responses,     \* the requests answered with a non-success status, as <<function, key>>
    \* the lru_cache of get_workflow and of get_submission, least recently used first
    workflow_cache,
    submission_cache,
    use_order,           \* per function, the keys ever called, least recently called first
    last_call,           \* what the latest call of a memoized function did
    \* get_all_workflows: one call
    discover_state,      \* "idle", "start", "running", "returned" or "raised"
    workflows_metadata,  \* the dict of line 49
    futures,             \* concurrent_recursion: the submitted calls of get_metadata_and_subworkflows
    seen,                \* concurrent_recursion: the identifiers submitted so far
    expansions,          \* workflow id -> number of runs of lines 53-58 on it
    returned_mapping     \* what get_all_workflows returned

parseVars == <<machine_type, parse_result>>
estVars == <<calls, next_attempt, yielded, yielded_from, warnings, gen_state>>
serviceVars == <<graph, submission_workflows, workflow_fetches, submission_fetches,
                error_responses>>
cacheVars == <<workflow_cache, submission_cache, use_order, last_call>>
discoverVars == <<discover_state, workflows_metadata, futures, seen, expansions, returned_mapping>>
fetchVars == <<serviceVars, cacheVars, discoverVars>>
vars == <<parseVars, estVars, fetchVars>>

ABSENT == "ABSENT"

(***************************************************************************)
(* Python built-ins on the strings the model uses.                         *)
(***************************************************************************)
\* int(s) succeeds
IntParses(s) == s \in {"0", "1", "2", "4", "8", "10", "50", "1024", "32768", "True", "False"}

\* int(s), for a string (or bool) that int() accepts
IntValue(s) ==
    CASE s = "0" -> 0
      [] s = "1" -> 1
      [] s = "2" -> 2
      [] s = "4" -> 4
      [] s = "8" -> 8
      [] s = "10" -> 10
      [] s = "50" -> 50
      [] s = "1024" -> 1024
      [] s = "32768" -> 32768
      [] s = "True" -> 1
      [] s = "False" -> 0

\* a float, in fixed point: 1024 units per 1.0
ToFloat(n) == n * 1024

\* float(s) succeeds (every numeric string of the model is an integer literal)
FloatParses(s) == IntParses(s) /\ s \notin {"True", "False"}

FloatValue(s) == ToFloat(IntValue(s))

\* s.split("-") for the machine type strings of the model
DashSegments(s) ==
    CASE s = "custom-4-1024" -> <<"custom", "4", "1024">>
      [] s = "n2d-custom-8-32768" -> <<"n2d", "custom", "8", "32768">>
      [] s = "n1-standard-1" -> <<"n1", "standard", "1">>
      [] s = "custom-n2d-4-1024" -> <<"custom", "n2d", "4", "1024">>

\* s.split() for the disk descriptors of the model
WsTokens(s) ==
    CASE s = "" -> << >>
      [] s = "local-disk 50 SSD" -> <<"local-disk", "50", "SSD">>
      [] s = "local-disk 50 LOCAL" -> <<"local-disk", "50", "LOCAL">>
      [] s = "local-disk 50" -> <<"local-disk", "50">>
      [] s = "local-disk big SSD" -> <<"local-disk", "big", "SSD">>
      [] s = "/mnt 10 LOCAL" -> <<"/mnt", "10", "LOCAL">>

\* s.startswith("local-disk"): the descriptors have no leading white space
StartsWithLocalDisk(s) == WsTokens(s) # << >> /\ WsTokens(s)[1] = "local-disk"

\* s.endswith("LOCAL"): the descriptors have no trailing white space
EndsWithLOCAL(s) == WsTokens(s) # << >> /\ WsTokens(s)[Len(WsTokens(s))] = "LOCAL"

\* s.split(".") for the call names of the model
DotComponents(s) ==
    CASE s = "wf.align" -> <<"wf", "align">>
      [] s = "wf.sort" -> <<"wf", "sort">>
      [] s = "align" -> <<"align">>

date_format == "%Y-%m-%dT%H:%M:%S.%fZ"

\* datetime.strptime(s, fmt) succeeds: date_format wants the fractional seconds
StrptimeParses(s, fmt) ==
    fmt = date_format /\ s \in {"2021-06-01T12:00:00.000000Z", "2021-06-01T12:01:00.500000Z"}

\* the parsed instant, in fixed-point seconds of the day
StrptimeValue(s) ==
    CASE s = "2021-06-01T12:00:00.000000Z" -> ToFloat(43200)
      [] s = "2021-06-01T12:01:00.500000Z" -> ToFloat(43260) + 512

(***************************************************************************)
(* _parse_machine_type (lines 121-132), on the "-" separated segments of   *)
(* its argument.                                                           *)
(***************************************************************************)
RECURSIVE RemoveN2dDashAnywhere(_)
\* str.replace('n2d-', ''): every occurrence goes.  On segments, "n2d-"
\* occurs exactly where a segment "n2d" is followed by another segment.
RemoveN2dDashAnywhere(segs) ==
    IF Len(segs) <= 1 THEN segs
    ELSE IF Head(segs) = "n2d" THEN RemoveN2dDashAnywhere(Tail(segs))
    ELSE <<Head(segs)>> \o RemoveN2dDashAnywhere(Tail(segs))

\* line 123: machine_type.replace('n2d-', '')
ReplaceN2dDash(segs) == RemoveN2dDashAnywhere(segs)

\* float(parts[2]) succeeds: parts[2] is everything after the second "-",
\* a numeric literal only when it is one numeric segment (no segment of the
\* model is empty or holds a sign)
RestIsFloat(segs) == Len(segs) = 3 /\ FloatParses(segs[3])

\* line 124: split("-", 2) has 3 parts iff there are at least 3 segments
SplitParts(segs) == IF Len(segs) >= 3 THEN 3 ELSE IF Len(segs) = 0 THEN 1 ELSE Len(segs)

Raised(exc) == [exc |-> exc, cpus |-> 0, memory_gb |-> 0]
Returned(cpus, memory_gb) == [exc |-> "none", cpus |-> cpus, memory_gb |-> memory_gb]

_parse_machine_type(arg) ==
    LET segs == ReplaceN2dDash(arg) IN
    IF 3 # SplitParts(segs) \/ "custom" # segs[1]
    THEN Raised("TNUCostException")
    ELSE IF IntParses(segs[2]) /\ segs[2] \notin {"True", "False"} /\ RestIsFloat(segs)
         THEN Returned(IntValue(segs[2]), FloatValue(segs[3]) \div 1024)
         ELSE Raised("TNUCostException")

(***************************************************************************)
(* The structured-field accessor utils.js_get: the value at a path, the    *)
(* default when the path is absent, KeyError when it is absent and no      *)
(* default was given.                                                      *)
(***************************************************************************)
NoDefault == "NoDefault"

js_get_raises(path, data, default) == data[path] = ABSENT /\ default = NoDefault

js_get(path, data, default) == IF data[path] = ABSENT THEN default ELSE data[path]

(***************************************************************************)
(* The cost collaborators of module costs, uninterpreted.                  *)
(***************************************************************************)
PersistentDisk_estimate(size_gb, runtime) ==
    [fn |-> "PersistentDisk", args |-> <<size_gb, runtime>>]

LocalSSDDisk_estimate(size_gb, runtime) ==
    [fn |-> "LocalSSDDisk", args |-> <<size_gb, runtime>>]

GCPCustomN1Cost_estimate(cpus, memory_gb, runtime, preemptible) ==
    [fn |-> "GCPCustomN1Cost", args |-> <<cpus, memory_gb, runtime, IF preemptible THEN 1 ELSE 0>>]

GCPCustomN2Cost_estimate(cpus, memory_gb, runtime, preemptible) ==
    [fn |-> "GCPCustomN2Cost", args |-> <<cpus, memory_gb, runtime, IF preemptible THEN 1 ELSE 0>>]

(***************************************************************************)
(* estimate_workflow_cost (lines 66-119): the body of the try block for    *)
(* one call attempt.                                                       *)
(***************************************************************************)
\* a variant of call_cached_of that takes only the integer 1 for a hit
call_cached_only_one(call_metadata) ==
    IntValue(js_get("callCaching.hit", call_metadata, "0")) = 1

\* line 74: bool(int(js_get("callCaching.hit", call_metadata, default=0)))
call_cached_of(call_metadata) == IntValue(js_get("callCaching.hit", call_metadata, "0")) # 0

\* line 86: bool(int(js_get("runtimeAttributes.preemptible", call_metadata)))
preemptible_of(call_metadata) ==
    IntValue(js_get("runtimeAttributes.preemptible", call_metadata, NoDefault)) # 0

\* lines 82-84: (end - start).total_seconds()
runtime_of(call_metadata) ==
    StrptimeValue(js_get("end", call_metadata, NoDefault))
        - StrptimeValue(js_get("start", call_metadata, NoDefault))

\* lines 75, 88-89
preempted_of(preemptible, backendStatus) ==
    IF preemptible
    THEN (IF backendStatus = "Preempted" THEN "True" ELSE "False")
    ELSE "NA"

\* lines 92-96
disk_size_gb_of(disk_description) ==
    IF StartsWithLocalDisk(disk_description)
    THEN FloatValue(WsTokens(disk_description)[2])
    ELSE ToFloat(1)

\* a variant of cost_disk_of without the LOCAL override of lines 99-100
cost_disk_always_persistent(disk_description, disk_size_gb, runtime) ==
    PersistentDisk_estimate(disk_size_gb, runtime)

\* lines 98-100
cost_disk_of(disk_description, disk_size_gb, runtime) ==
    IF EndsWithLOCAL(disk_description)
    THEN LocalSSDDisk_estimate(disk_size_gb, runtime)
    ELSE PersistentDisk_estimate(disk_size_gb, runtime)

\* lines 102-106
cost_instance_of(cpuplatform_description, cpus, memory_gb, runtime, preemptible) ==
    IF cpuplatform_description \in {"Intel Cascade Lake", "AMD Rome"}
    THEN GCPCustomN2Cost_estimate(cpus, memory_gb, runtime, preemptible)
    ELSE GCPCustomN1Cost_estimate(cpus, memory_gb, runtime, preemptible)

\* The exception the try block raises for an attempt, "none" when it reaches
\* the yield: the statements of lines 73-107 in order, each with what makes
\* it raise.
AttemptException(call_name, call_metadata) ==
    LET hit == js_get("callCaching.hit", call_metadata, "0")
        machine == js_get("jes.machineType", call_metadata, NoDefault)
        start == js_get("start", call_metadata, NoDefault)
        end == js_get("end", call_metadata, NoDefault)
        pre == js_get("runtimeAttributes.preemptible", call_metadata, NoDefault)
        disks == js_get("runtimeAttributes.disks", call_metadata, "")
    IN
    IF Len(DotComponents(call_name)) < 2 THEN "IndexError"                     \* 73
    ELSE IF ~IntParses(hit) THEN "ValueError"                                  \* 74
    ELSE IF call_cached_of(call_metadata) THEN "none"                          \* 76-77
    ELSE IF js_get_raises("jes.machineType", call_metadata, NoDefault) THEN "KeyError"   \* 79
    ELSE IF _parse_machine_type(DashSegments(machine)).exc # "none"
         THEN _parse_machine_type(DashSegments(machine)).exc                   \* 80
    ELSE IF js_get_raises("start", call_metadata, NoDefault) THEN "KeyError"   \* 82
    ELSE IF ~StrptimeParses(start, date_format) THEN "ValueError"              \* 82
    ELSE IF js_get_raises("end", call_metadata, NoDefault) THEN "KeyError"     \* 83
    ELSE IF ~StrptimeParses(end, date_format) THEN "ValueError"                \* 83
    ELSE IF js_get_raises("runtimeAttributes.preemptible", call_metadata, NoDefault)
         THEN "KeyError"                                                       \* 86
    ELSE IF ~IntParses(pre) THEN "ValueError"                                  \* 86
    ELSE IF js_get_raises("backendStatus", call_metadata, NoDefault) THEN "KeyError"     \* 87
    ELSE IF StartsWithLocalDisk(disks) /\ Len(WsTokens(disks)) # 3 THEN "ValueError"     \* 93
    ELSE IF StartsWithLocalDisk(disks) /\ ~FloatParses(WsTokens(disks)[2])
         THEN "ValueError"                                                     \* 94
    ELSE "none"

\* lines 77, 108-116: the record of a cached attempt
CachedRecord(task_name) ==
    [task_name |-> task_name, cost |-> << >>, number_of_cpus |-> 0,
     memory |-> ToFloat(0), disk |-> ToFloat(0), duration |-> ToFloat(0),
     call_cached |-> TRUE, preempted |-> "NA", machine_type |-> "NA"]

\* lines 79-107, 108-116: the record of an attempt that ran
ExecutedRecord(task_name, call_metadata) ==
    LET machine == js_get("jes.machineType", call_metadata, NoDefault)
        parsed == _parse_machine_type(DashSegments(machine))
        runtime == runtime_of(call_metadata)
        preemptible == preemptible_of(call_metadata)
        backendStatus == js_get("backendStatus", call_metadata, NoDefault)
        disk_description == js_get("runtimeAttributes.disks", call_metadata, "")
        disk_size_gb == disk_size_gb_of(disk_description)
        cost_disk == cost_disk_of(disk_description, disk_size_gb, runtime)
        cpuplatform_description == js_get("runtimeAttributes.cpuPlatform", call_metadata, "")
        cost_instance == cost_instance_of(cpuplatform_description, parsed.cpus,
                                          parsed.memory_gb, runtime, preemptible)
    IN
    [task_name |-> task_name, cost |-> <<cost_instance, cost_disk>>,
     number_of_cpus |-> parsed.cpus, memory |-> parsed.memory_gb,
     disk |-> disk_size_gb, duration |-> runtime,
     call_cached |-> FALSE, preempted |-> preempted_of(preemptible, backendStatus),
     machine_type |-> machine]

\* the record the yield of line 108 produces, for an attempt whose try block
\* raises nothing
AttemptRecord(call_name, call_metadata) ==
    LET task_name == DotComponents(call_name)[2] IN
    IF call_cached_of(call_metadata)
    THEN CachedRecord(task_name)
    ELSE ExecutedRecord(task_name, call_metadata)

\* line 117: except (KeyError, TNUCostException)
Caught(exc) == exc \in {"KeyError", "TNUCostException"}

(***************************************************************************)
(* Inputs.                                                                 *)
(***************************************************************************)
MaxSegments == 4
MaxAttempts == 3

SegTokens == {"n2d", "custom", "4", "1024", "x"}

\* the arguments of _parse_machine_type: up to MaxSegments segments
MachineTypeArgs == UNION {[1..n -> SegTokens] : n \in 0..MaxSegments}

NotCalled == Raised("not called")

T_START == "2021-06-01T12:00:00.000000Z"
T_END == "2021-06-01T12:01:00.500000Z"
T_NOFRACTION == "2021-06-01T12:01:00Z"

\* a call attempt's metadata: the keys the code reads, ABSENT when missing
Attempt(sub, hit, machine, start, end, pre, status, disks, cpu) ==
    ("subWorkflowId" :> sub) @@ ("callCaching.hit" :> hit) @@ ("jes.machineType" :> machine)
    @@ ("start" :> start) @@ ("end" :> end) @@ ("runtimeAttributes.preemptible" :> pre)
    @@ ("backendStatus" :> status) @@ ("runtimeAttributes.disks" :> disks)
    @@ ("runtimeAttributes.cpuPlatform" :> cpu)

HitValues == {ABSENT, "False", "True", "2", "x"}
MachineValues == {ABSENT, "custom-4-1024", "n2d-custom-8-32768", "n1-standard-1"}
StartValues == {ABSENT, T_START, T_NOFRACTION}
EndValues == {ABSENT, T_END, T_NOFRACTION}
PreemptibleValues == {ABSENT, "0", "1", "x"}
StatusValues == {ABSENT, "Preempted", "Done"}
DiskValues == {ABSENT, "", "local-disk 50 SSD", "local-disk 50 LOCAL", "local-disk 50",
               "local-disk big SSD", "/mnt 10 LOCAL"}
CpuValues == {ABSENT, "AMD Rome", "Intel Cascade Lake", "Intel Skylake"}

\* every combination of the fields of a task attempt
TaskAttempts ==
    {Attempt(ABSENT, h, m, s, e, p, b, d, c) :
        h \in HitValues, m \in MachineValues, s \in StartValues, e \in EndValues,
        p \in PreemptibleValues, b \in StatusValues, d \in DiskValues, c \in CpuValues}

ExecutedAttempt ==
    Attempt(ABSENT, "False", "custom-4-1024", T_START, T_END, "0", "Done", "local-disk 50 SSD", ABSENT)
CachedAttempt ==
    Attempt(ABSENT, "True", ABSENT, ABSENT, ABSENT, ABSENT, ABSENT, ABSENT, ABSENT)
SubWorkflowAttempt ==
    Attempt("sub-1", ABSENT, ABSENT, T_START, T_END, ABSENT, ABSENT, ABSENT, ABSENT)
NoStartAttempt ==
    Attempt(ABSENT, "False", "custom-4-1024", ABSENT, T_END, "0", "Done", "local-disk 50 SSD", ABSENT)
StandardMachineAttempt ==
    Attempt(ABSENT, "False", "n1-standard-1", T_START, T_END, "1", "Preempted", "", ABSENT)
NoFractionAttempt ==
    Attempt(ABSENT, "False", "custom-4-1024", T_START, T_NOFRACTION, "0", "Done", "local-disk 50 SSD", ABSENT)

\* the attempts a workflow of several attempts is made of
Catalogue == {ExecutedAttempt, CachedAttempt, SubWorkflowAttempt, NoStartAttempt,
              StandardMachineAttempt, NoFractionAttempt}

CallNames == {"wf.align", "wf.sort", "align"}

CallAttempt(name, metadata) == [call_name |-> name, call_metadata |-> metadata]

\* a dict keeps the attempts of one call name together
Grouped(seq) ==
    \A i, j, k \in 1..Len(seq) :
        (i < j /\ j < k /\ seq[i].call_name = seq[k].call_name)
            => seq[j].call_name = seq[i].call_name

\* workflow_metadata['calls'], flattened in the order the loops of lines
\* 67-68 visit it: one workflow with one task attempt of any shape, or up to
\* MaxAttempts attempts of the catalogue under the call names
Workflows ==
    {<<CallAttempt("wf.align", a)>> : a \in TaskAttempts}
    \cup {w \in UNION {[1..n -> {CallAttempt(c, a) : c \in CallNames, a \in Catalogue}] :
                        n \in 0..MaxAttempts} : Grouped(w)}

(***************************************************************************)
(* State machine: one call of _parse_machine_type.                         *)
(***************************************************************************)
ParseIdle == machine_type = << >> /\ parse_result = NotCalled

ParseInit == machine_type \in MachineTypeArgs /\ parse_result = NotCalled

CallParseMachineType ==
    /\ parse_result = NotCalled
    /\ parse_result' = _parse_machine_type(machine_type)
    /\ UNCHANGED <<machine_type, estVars, fetchVars>>

(***************************************************************************)
(* State machine: one generator of estimate_workflow_cost, a step per call *)
(* attempt.                                                                *)
(***************************************************************************)
EstIdle ==
    /\ calls = << >>
    /\ next_attempt = 1
    /\ yielded = << >>
    /\ yielded_from = << >>
    /\ warnings = {}
    /\ gen_state = "exhausted"

EstInit ==
    /\ calls \in Workflows
    /\ next_attempt = 1
    /\ yielded = << >>
    /\ yielded_from = << >>
    /\ warnings = {}
    /\ gen_state = "running"

AtAttempt == gen_state = "running" /\ next_attempt <= Len(calls)

IsSubWorkflow(call_metadata) == call_metadata["subWorkflowId"] # ABSENT

CurrentException ==
    AttemptException(calls[next_attempt].call_name, calls[next_attempt].call_metadata)

\* lines 69-71
SkipSubWorkflow ==
    /\ AtAttempt
    /\ IsSubWorkflow(calls[next_attempt].call_metadata)
    /\ next_attempt' = next_attempt + 1
    /\ UNCHANGED <<calls, yielded, yielded_from, warnings, gen_state, parseVars, fetchVars>>

\* lines 72-116
YieldRecord ==
    /\ AtAttempt
    /\ ~IsSubWorkflow(calls[next_attempt].call_metadata)
    /\ CurrentException = "none"
    /\ yielded' = Append(yielded, AttemptRecord(calls[next_attempt].call_name,
                                                calls[next_attempt].call_metadata))
    /\ yielded_from' = Append(yielded_from, next_attempt)
    /\ next_attempt' = next_attempt + 1
    /\ UNCHANGED <<calls, warnings, gen_state, parseVars, fetchVars>>

\* lines 117-119
LogWarning ==
    /\ AtAttempt
    /\ ~IsSubWorkflow(calls[next_attempt].call_metadata)
    /\ CurrentException # "none"
    /\ Caught(CurrentException)
    /\ warnings' = warnings \cup {next_attempt}
    /\ next_attempt' = next_attempt + 1
    /\ UNCHANGED <<calls, yielded, yielded_from, gen_state, parseVars, fetchVars>>

\* an exception the except clause of line 117 does not name leaves the generator
PropagateException ==
    /\ AtAttempt
    /\ ~IsSubWorkflow(calls[next_attempt].call_metadata)
    /\ CurrentException # "none"
    /\ ~Caught(CurrentException)
    /\ gen_state' = "raised"
    /\ UNCHANGED <<calls, next_attempt, yielded, yielded_from, warnings, parseVars, fetchVars>>

\* the loops of lines 67-68 end
Exhaust ==
    /\ gen_state = "running"
    /\ next_attempt > Len(calls)
    /\ gen_state' = "exhausted"
    /\ UNCHANGED <<calls, next_attempt, yielded, yielded_from, warnings, parseVars, fetchVars>>


(***************************************************************************)
(* functools.lru_cache as lines 26 and 35 apply it: lru_cache() keeps the  *)
(* default maxsize of 128 entries and drops the least recently used one.   *)
(* A cache is the sequence of its entries, least recently used first.      *)
(***************************************************************************)
maxsize == 128

CacheHas(cache, key) == \E i \in 1..Len(cache) : cache[i].key = key

CacheIndex(cache, key) == CHOOSE i \in 1..Len(cache) : cache[i].key = key

CacheValue(cache, key) == cache[CacheIndex(cache, key)].value

Without(seq, i) == [j \in 1..(Len(seq) - 1) |-> IF j < i THEN seq[j] ELSE seq[j + 1]]

\* a variant of lru_touch that leaves the entry where it is (first in, first out)
lru_touch_keeps_place(cache, key) == cache

\* a hit moves the entry to the most recently used end
lru_touch(cache, key) ==
    Append(Without(cache, CacheIndex(cache, key)), cache[CacheIndex(cache, key)])

\* a miss adds the entry and, when the cache is full, drops the oldest one
lru_store(cache, key, value) ==
    LET added == Append(cache, [key |-> key, value |-> value])
    IN  IF Len(added) > maxsize THEN Tail(added) ELSE added

\* a variant of raise_for_status that lets every response through
raise_for_status_never(response) == FALSE

\* lines 32, 42: resp.raise_for_status() raises
raise_for_status(response) == ~response.ok

\* One call of a memoized fetcher (lines 26-33, 35-43): a hit returns the
\* cached value; a miss makes the request, raises when raise_for_status does
\* (nothing is cached then) and otherwise caches and returns resp.json().
\* response is what the service answers if asked.
lru_call(cache, key, response) ==
    IF CacheHas(cache, key)
    THEN [cache |-> lru_touch(cache, key), network |-> FALSE, raised |-> FALSE,
          value |-> CacheValue(cache, key)]
    ELSE IF raise_for_status(response)
    THEN [cache |-> cache, network |-> TRUE, raised |-> TRUE, value |-> response.json]
    ELSE [cache |-> lru_store(cache, key, response.json), network |-> TRUE, raised |-> FALSE,
          value |-> response.json]

(***************************************************************************)
(* The orchestration service behind fiss.fapi.  A workflow's metadata is   *)
(* reduced to what lines 54-57 read: for each call attempt, its            *)
(* subWorkflowId, NO_SUB for an attempt without the key (every workflow    *)
(* has one such task attempt).  Each response is a new object: fetch is    *)
(* the ordinal of the request that produced it.                            *)
(***************************************************************************)
NO_SUB == 0
NO_ID == 0
SUBMISSION_ID == 1

EmptyMap == [k \in {} |-> 0]

Count(f, k) == IF k \in DOMAIN f THEN f[k] ELSE 0

Increment(f, k) == [j \in DOMAIN f \cup {k} |-> IF j = k THEN Count(f, k) + 1 ELSE f[j]]

CallsOf(workflow_id) ==
    {NO_SUB} \cup (IF workflow_id \in DOMAIN graph THEN graph[workflow_id] ELSE {})

\* fiss.fapi.get_workflow_metadata (line 41)
WorkflowResponse(workflow_id, ok) ==
    [ok |-> ok,
     json |-> [workflowId |-> workflow_id, calls |-> CallsOf(workflow_id),
               fetch |-> Count(workflow_fetches, workflow_id) + 1]]

\* fiss.fapi.get_submission (line 31)
SubmissionResponse(submission_id, ok) ==
    [ok |-> ok,
     json |-> [submissionId |-> submission_id, workflows |-> submission_workflows,
               fetch |-> Count(submission_fetches, submission_id) + 1]]

(***************************************************************************)
(* Calls of the memoized fetchers from the process, outside of a           *)
(* discovery.                                                              *)
(***************************************************************************)
MaxKeys == 130

\* the keys that are called again after their first call
RecallKeys == {1}

SubmissionKeys == {1, 2}

NoCall == [fn |-> "none", key |-> 0, network |-> FALSE, fetch |-> 0,
           used_before |-> FALSE, recent |-> FALSE]

\* the position of key from the most recently used end, 0 when never used
Recency(order, key) ==
    IF \E i \in 1..Len(order) : order[i] = key
    THEN Len(order) + 1 - (CHOOSE i \in 1..Len(order) : order[i] = key)
    ELSE 0

Used(order, key) ==
    IF Recency(order, key) = 0
    THEN Append(order, key)
    ELSE Append(Without(order, Len(order) + 1 - Recency(order, key)), key)

CallRecord(fn, key, order, result) ==
    [fn |-> fn, key |-> key, network |-> result.network, fetch |-> result.value.fetch,
     used_before |-> Recency(order, key) > 0,
     recent |-> Recency(order, key) > 0 /\ Recency(order, key) <= 128]

\* get_workflow(submission_id, key), the service answering with success
CallGetWorkflow(key) ==
    LET result == lru_call(workflow_cache, key, WorkflowResponse(key, TRUE)) IN
    /\ discover_state = "idle"
    /\ workflow_cache' = result.cache
    /\ workflow_fetches' = IF result.network THEN Increment(workflow_fetches, key)
                           ELSE workflow_fetches
    /\ last_call' = CallRecord("get_workflow", key, use_order.get_workflow, result)
    /\ use_order' = [use_order EXCEPT !.get_workflow = Used(@, key)]
    /\ UNCHANGED <<graph, submission_workflows, submission_fetches, error_responses,
                   submission_cache, discoverVars, parseVars, estVars>>

\* a first call of the next key, while there is one
CallGetWorkflowFresh ==
    /\ Len(use_order.get_workflow) < MaxKeys
    /\ CallGetWorkflow(Len(use_order.get_workflow) + 1)

\* a repeated call
CallGetWorkflowAgain ==
    \E key \in RecallKeys :
        /\ Recency(use_order.get_workflow, key) > 0
        /\ CallGetWorkflow(key)

\* get_submission(key), the service answering with success
CallGetSubmission ==
    \E key \in SubmissionKeys :
        LET result == lru_call(submission_cache, key, SubmissionResponse(key, TRUE)) IN
        /\ discover_state = "idle"
        /\ submission_cache' = result.cache
        /\ submission_fetches' = IF result.network THEN Increment(submission_fetches, key)
                                 ELSE submission_fetches
        /\ last_call' = CallRecord("get_submission", key, use_order.get_submission, result)
        /\ use_order' = [use_order EXCEPT !.get_submission = Used(@, key)]
        /\ UNCHANGED <<graph, submission_workflows, workflow_fetches, error_responses,
                       workflow_cache, discoverVars, parseVars, estVars>>

(***************************************************************************)
(* get_all_workflows (lines 45-64) over utils.concurrent_recursion: the    *)
(* helper calls the expansion function once for each seed and for each     *)
(* identifier an expansion returns that it has not submitted before, the   *)
(* calls running concurrently, until none is left; an exception of a call  *)
(* reaches the helper's caller.                                            *)
(***************************************************************************)
MaxEdges == 2

\* the workflow identifiers of the service
Ids == {1, 2, 3}

Edges(g) == {<<a, b>> \in Ids \X Ids : b \in g[a]}

\* the call graphs of up to MaxEdges sub-workflow references, cycles included
Graphs == {g \in [Ids -> SUBSET Ids] : Cardinality(Edges(g)) <= MaxEdges}

\* the submissions: any set of entries, with or without one that has no workflowId
Submissions == SUBSET (Ids \cup {NO_ID})

\* a variant of subworkflows_of that keeps one sub-workflow per workflow
subworkflows_first_only(wf_metadata) ==
    LET subs == {c \in wf_metadata.calls : c # NO_SUB}
    IN  {c \in subs : \A d \in subs : c <= d}

\* lines 54-57: the subWorkflowId of every attempt that has one
subworkflows_of(wf_metadata) == {c \in wf_metadata.calls : c # NO_SUB}

\* line 61
initial_workflow_ids(submission) == {wf \in submission.workflows : wf # NO_ID}

\* a variant of new_identifiers that submits every returned identifier
new_identifiers_all(result, already) == result

\* concurrent_recursion: the identifiers of a result not submitted before
new_identifiers(result, already) == result \ already

Submitted == [state |-> "submitted", wf_metadata |-> [workflowId |-> 0, calls |-> {}, fetch |-> 0],
              result |-> {}]

\* lines 60-62: fetch the submission and hand its workflow ids to the helper
GetSubmission ==
    \E ok \in BOOLEAN :
        LET answer == SubmissionResponse(SUBMISSION_ID, ok)
            result == lru_call(submission_cache, SUBMISSION_ID, answer)
            seeds == initial_workflow_ids(result.value)
        IN
        /\ discover_state = "start"
        /\ submission_cache' = result.cache
        /\ submission_fetches' = IF result.network THEN Increment(submission_fetches, SUBMISSION_ID)
                                 ELSE submission_fetches
        /\ error_responses' = IF result.network /\ ~answer.ok
                               THEN error_responses \cup {<<"get_submission", SUBMISSION_ID>>}
                               ELSE error_responses
        /\ last_call' = CallRecord("get_submission", SUBMISSION_ID, use_order.get_submission, result)
        /\ use_order' = [use_order EXCEPT !.get_submission = Used(@, SUBMISSION_ID)]
        /\ IF result.raised
           THEN /\ discover_state' = "raised"
                /\ UNCHANGED <<futures, seen>>
           ELSE /\ discover_state' = "running"
                /\ futures' = [id \in seeds |-> Submitted]
                /\ seen' = seeds
        /\ UNCHANGED <<graph, submission_workflows, workflow_fetches, workflow_cache,
                       workflows_metadata, expansions, returned_mapping, parseVars, estVars>>

\* line 52, in a worker thread: get_workflow for a submitted identifier
WorkerFetch(id) ==
    \E ok \in BOOLEAN :
        LET answer == WorkflowResponse(id, ok)
            result == lru_call(workflow_cache, id, answer)
        IN
        /\ id \in DOMAIN futures
        /\ futures[id].state = "submitted"
        /\ workflow_cache' = result.cache
        /\ workflow_fetches' = IF result.network THEN Increment(workflow_fetches, id)
                               ELSE workflow_fetches
        /\ error_responses' = IF result.network /\ ~answer.ok
                               THEN error_responses \cup {<<"get_workflow", id>>}
                               ELSE error_responses
        /\ last_call' = CallRecord("get_workflow", id, use_order.get_workflow, result)
        /\ use_order' = [use_order EXCEPT !.get_workflow = Used(@, id)]
        /\ futures' = [futures EXCEPT ![id] =
                          IF result.raised
                          THEN [@ EXCEPT !.state = "failed"]
                          ELSE [@ EXCEPT !.state = "fetched", !.wf_metadata = result.value]]
        /\ UNCHANGED <<graph, submission_workflows, submission_fetches, submission_cache,
                       discover_state, workflows_metadata, seen, expansions, returned_mapping,
                       parseVars, estVars>>

\* lines 53-58, in the same worker thread: record the metadata, return the
\* sub-workflow ids
WorkerExpand(id) ==
    /\ id \in DOMAIN futures
    /\ futures[id].state = "fetched"
    /\ workflows_metadata' =
          [k \in DOMAIN workflows_metadata \cup {id} |->
              IF k = id THEN futures[id].wf_metadata ELSE workflows_metadata[k]]
    /\ futures' = [futures EXCEPT ![id] =
                      [state |-> "done", wf_metadata |-> futures[id].wf_metadata,
                       result |-> subworkflows_of(futures[id].wf_metadata)]]
    /\ expansions' = Increment(expansions, id)
    /\ UNCHANGED <<serviceVars, cacheVars, discover_state, seen, returned_mapping,
                   parseVars, estVars>>

\* concurrent_recursion takes a finished call and submits what is new in its result
CollectResult(id) ==
    LET new == new_identifiers(futures[id].result, seen) IN
    /\ discover_state = "running"
    /\ id \in DOMAIN futures
    /\ futures[id].state = "done"
    /\ futures' = [k \in (DOMAIN futures \ {id}) \cup new |->
                      IF k \in new THEN Submitted ELSE futures[k]]
    /\ seen' = seen \cup new
    /\ UNCHANGED <<serviceVars, cacheVars, discover_state, workflows_metadata, expansions,
                   returned_mapping, parseVars, estVars>>

\* the exception of a call leaves concurrent_recursion and get_all_workflows
CollectException(id) ==
    /\ discover_state = "running"
    /\ id \in DOMAIN futures
    /\ futures[id].state = "failed"
    /\ discover_state' = "raised"
    /\ UNCHANGED <<serviceVars, cacheVars, workflows_metadata, futures, seen, expansions,
                   returned_mapping, parseVars, estVars>>

\* line 64, once concurrent_recursion has returned
ReturnMapping ==
    /\ discover_state = "running"
    /\ DOMAIN futures = {}
    /\ discover_state' = "returned"
    /\ returned_mapping' = [returned |-> TRUE, mapping |-> workflows_metadata]
    /\ UNCHANGED <<serviceVars, cacheVars, workflows_metadata, futures, seen, expansions,
                   parseVars, estVars>>

NothingReturned == [returned |-> FALSE, mapping |-> EmptyMap]

FetchIdle ==
    /\ graph = EmptyMap
    /\ submission_workflows = {}
    /\ workflow_fetches = EmptyMap
    /\ submission_fetches = EmptyMap
    /\ error_responses = {}
    /\ workflow_cache = << >>
    /\ submission_cache = << >>
    /\ use_order = [get_workflow |-> << >>, get_submission |-> << >>]
    /\ last_call = NoCall
    /\ discover_state = "idle"
    /\ workflows_metadata = EmptyMap
    /\ futures = EmptyMap
    /\ seen = {}
    /\ expansions = EmptyMap
    /\ returned_mapping = NothingReturned

\* a new process that calls get_all_workflows(SUBMISSION_ID)
DiscoverInit ==
    /\ graph \in Graphs
    /\ submission_workflows \in Submissions
    /\ workflow_fetches = EmptyMap
    /\ submission_fetches = EmptyMap
    /\ error_responses = {}
    /\ workflow_cache = << >>
    /\ submission_cache = << >>
    /\ use_order = [get_workflow |-> << >>, get_submission |-> << >>]
    /\ last_call = NoCall
    /\ discover_state = "start"
    /\ workflows_metadata = EmptyMap
    /\ futures = EmptyMap
    /\ seen = {}
    /\ expansions = EmptyMap
    /\ returned_mapping = NothingReturned

InitParse == ParseInit /\ EstIdle /\ FetchIdle

NextParse == CallParseMachineType

SpecParse == InitParse /\ [][NextParse]_vars

InitEstimate == EstInit /\ ParseIdle /\ FetchIdle

NextEstimate == SkipSubWorkflow \/ YieldRecord \/ LogWarning \/ PropagateException \/ Exhaust

SpecEstimate == InitEstimate /\ [][NextEstimate]_vars

InitCache == FetchIdle /\ ParseIdle /\ EstIdle

NextCache == CallGetWorkflowFresh \/ CallGetWorkflowAgain \/ CallGetSubmission

SpecCache == InitCache /\ [][NextCache]_vars

InitDiscover == DiscoverInit /\ ParseIdle /\ EstIdle

NextDiscover ==
    \/ GetSubmission
    \/ \E id \in Ids : WorkerFetch(id)
    \/ \E id \in Ids : WorkerExpand(id)
    \/ \E id \in Ids : CollectResult(id)
    \/ \E id \in Ids : CollectException(id)
    \/ ReturnMapping

SpecDiscover == InitDiscover /\ [][NextDiscover]_vars

(***************************************************************************)
(* Claims about estimate_workflow_cost and _parse_machine_type.            *)
(***************************************************************************)
Finished == gen_state \in {"exhausted", "raised"}

Attempts == 1..Len(calls)

Metadata(i) == calls[i].call_metadata

\* the attempt the generator has gone past
Handled(i) == i \in Attempts /\ i < next_attempt

YieldedAttempts == {yielded_from[j] : j \in 1..Len(yielded_from)}

RecordOf(i) == yielded[CHOOSE j \in 1..Len(yielded_from) : yielded_from[j] = i]

AllCallNamesDotted == \A i \in Attempts : calls[i].call_name \in {"wf.align", "wf.sort"}

\* the ascending sequence of the members of a set of indices up to n
RECURSIVE Ascending(_, _)
Ascending(set, n) ==
    IF n = 0 THEN << >>
    ELSE IF n \in set THEN Append(Ascending(set, n - 1), n) ELSE Ascending(set, n - 1)

\* C8 (as claimed): _parse_machine_type returns (c, m / 1024) exactly for the
\* arguments custom-<c>-<m> and n2d-custom-<c>-<m> with integer c and numeric
\* m, and raises TNUCostException for an argument of any other shape, "n2d-"
\* being stripped only as a prefix.
C8_ParseShapes ==
    LET IsNumber(t) == t \in {"4", "1024"}
        Custom(segs) == Len(segs) = 3 /\ segs[1] = "custom" /\ IsNumber(segs[2]) /\ IsNumber(segs[3])
        body == IF Len(machine_type) = 4 /\ machine_type[1] = "n2d"
                THEN Tail(machine_type) ELSE machine_type
    IN  parse_result # NotCalled =>
            IF Custom(body)
            THEN parse_result = [exc |-> "none", cpus |-> IntValue(body[2]),
                                 memory_gb |-> (IntValue(body[3]) * 1024) \div 1024]
            ELSE parse_result.exc = "TNUCostException"

\* C4 (as claimed): when the generator has finished, every attempt that is
\* not a sub-workflow reference and whose processing does not fail has emitted
\* its record, whatever failed before or after it (call names of the expected
\* workflow.task form).
C4_OthersStillEmit ==
    (Finished /\ AllCallNamesDotted) =>
        \A i \in Attempts :
            (~IsSubWorkflow(Metadata(i))
             /\ AttemptException(calls[i].call_name, Metadata(i)) = "none")
                => i \in YieldedAttempts

\* C6 (as claimed): the records emitted by a finished generator are, in
\* order, one per attempt that is neither a sub-workflow reference nor
\* skipped with a warning (call names of the expected workflow.task form).
C6_OnePerAttemptInOrder ==
    (Finished /\ AllCallNamesDotted) =>
        yielded_from = Ascending({i \in Attempts : ~IsSubWorkflow(Metadata(i)) /\ i \notin warnings},
                                 Len(calls))

\* an attempt all of whose fields other than the backend status are present
\* and well formed, and that is not cached
C7_RanAndWellFormed(i) ==
    /\ calls[i].call_name \in {"wf.align", "wf.sort"}
    /\ Metadata(i)["subWorkflowId"] = ABSENT
    /\ Metadata(i)["callCaching.hit"] \in {ABSENT, "False"}
    /\ Metadata(i)["jes.machineType"] \in {"custom-4-1024", "n2d-custom-8-32768"}
    /\ Metadata(i)["start"] = T_START
    /\ Metadata(i)["end"] = T_END
    /\ Metadata(i)["runtimeAttributes.preemptible"] \in {"0", "1"}
    /\ Metadata(i)["runtimeAttributes.disks"] \in
            {ABSENT, "", "local-disk 50 SSD", "local-disk 50 LOCAL", "/mnt 10 LOCAL"}

\* C7 (as claimed): a non-cached attempt whose preemptible flag is false
\* yields a record with preempted = "NA" whatever its backend status, present
\* or not; with the flag true and a backend status it yields preempted = True
\* for "Preempted" and False otherwise.
C7_PreemptedFollowsFlag ==
    \A i \in Attempts :
        (Handled(i) /\ C7_RanAndWellFormed(i)) =>
            /\ Metadata(i)["runtimeAttributes.preemptible"] = "0"
                => (i \in YieldedAttempts /\ RecordOf(i).preempted = "NA")
            /\ (Metadata(i)["runtimeAttributes.preemptible"] = "1"
                /\ Metadata(i)["backendStatus"] # ABSENT)
                => (i \in YieldedAttempts
                    /\ RecordOf(i).preempted =
                        (IF Metadata(i)["backendStatus"] = "Preempted" THEN "True" ELSE "False"))

C9_CacheHit(i) == Metadata(i)["callCaching.hit"] \in {"True", "2"}

\* C9: an attempt whose cache-hit indicator is a nonzero integer, once
\* handled, has emitted a record, and that record has cost 0.0, 0 cpus,
\* memory, runtime and disk 0.0, preempted "NA" and machine_type "NA",
\* whatever its other fields hold.
C9_CachedRecordIsZero ==
    \A i \in Attempts :
        (Handled(i) /\ ~IsSubWorkflow(Metadata(i)) /\ C9_CacheHit(i)
         /\ calls[i].call_name \in {"wf.align", "wf.sort"}) =>
            /\ i \in YieldedAttempts
            /\ RecordOf(i).cost = << >>
            /\ RecordOf(i).number_of_cpus = 0
            /\ RecordOf(i).memory = 0
            /\ RecordOf(i).duration = 0
            /\ RecordOf(i).disk = 0
            /\ RecordOf(i).call_cached = TRUE
            /\ RecordOf(i).preempted = "NA"
            /\ RecordOf(i).machine_type = "NA"

\* C9's case: a cached attempt with no start, or with a machine type that
\* does not parse, has emitted its record
C9_Witness ==
    \E i \in Attempts :
        /\ i \in YieldedAttempts
        /\ C9_CacheHit(i)
        /\ Metadata(i)["jes.machineType"] = "n1-standard-1"
        /\ Metadata(i)["start"] = ABSENT
        /\ Metadata(i)["runtimeAttributes.disks"] = "local-disk 50"

\* C10: the record of a non-cached attempt has the disk size of its
\* descriptor (the middle token of "local-disk <size> <type>", 1.0 for any
\* other descriptor, an empty or a missing one included), and its disk cost
\* is the local SSD estimate when the descriptor ends with LOCAL and the
\* persistent disk estimate otherwise, of that size and the record's runtime.
C10_DiskFollowsDescriptor ==
    \A j \in 1..Len(yielded) :
        LET d == Metadata(yielded_from[j])["runtimeAttributes.disks"]
            r == yielded[j]
        IN  ~r.call_cached =>
                /\ d \in {"local-disk 50 SSD", "local-disk 50 LOCAL"} => r.disk = 50 * 1024
                /\ d \in {ABSENT, "", "/mnt 10 LOCAL"} => r.disk = 1024
                /\ d \in {ABSENT, "", "/mnt 10 LOCAL", "local-disk 50 SSD", "local-disk 50 LOCAL"}
                /\ r.cost[2].args = <<r.disk, r.duration>>
                /\ r.cost[2].fn = (IF d \in {"local-disk 50 LOCAL", "/mnt 10 LOCAL"}
                                   THEN "LocalSSDDisk" ELSE "PersistentDisk")

\* C10's case: records of a local-disk descriptor of each type and of a
\* missing descriptor were emitted
C10_Witness ==
    /\ Len(yielded) = 1
    /\ ~yielded[1].call_cached
    /\ Metadata(yielded_from[1])["runtimeAttributes.disks"] = "local-disk 50 LOCAL"
    /\ yielded[1].disk = 50 * 1024
    /\ yielded[1].cost[2].fn = "LocalSSDDisk"

(***************************************************************************)
(* Claims about the memoized fetchers and get_all_workflows.               *)
(***************************************************************************)
\* the identifiers reachable from a set through sub-workflow references
RECURSIVE ReachableFrom(_)
ReachableFrom(set) ==
    LET further == set \cup UNION {graph[a] : a \in set}
    IN  IF further = set THEN set ELSE ReachableFrom(further)

\* C1: when get_all_workflows returns, the keys of the returned mapping are
\* exactly the identifiers reachable through sub-workflow references from the
\* submission's entries that have a workflowId, and each key maps to the
\* metadata the service answered for it, in every interleaving of the calls.
C1_ReturnsReachable ==
    discover_state = "returned" =>
        /\ returned_mapping.returned
        /\ DOMAIN returned_mapping.mapping = ReachableFrom(submission_workflows \ {NO_ID})
        /\ \A k \in DOMAIN returned_mapping.mapping :
              returned_mapping.mapping[k] =
                  [workflowId |-> k, calls |-> graph[k] \cup {NO_SUB}, fetch |-> 1]

\* C1's case: a returned mapping of three workflows, one of them reached only
\* as a sub-workflow of a sub-workflow, from a submission that also has an
\* entry without workflowId
C1_Witness ==
    /\ discover_state = "returned"
    /\ NO_ID \in submission_workflows
    /\ Cardinality(DOMAIN returned_mapping.mapping) = 3
    /\ Cardinality(submission_workflows \ {NO_ID}) = 1
    /\ \E a \in submission_workflows \ {NO_ID} : Cardinality(graph[a]) = 1

FetchesOf(fn) == IF fn = "get_workflow" THEN workflow_fetches ELSE submission_fetches

C5_FailurePropagates ==
    /\ error_responses # {} => discover_state # "returned"
    /\ discover_state # "returned" => returned_mapping = NothingReturned

\* C5's case: a workflow request failed after other workflows had been
\* recorded, and get_all_workflows raised without returning the partial dict
C5_Witness ==
    /\ discover_state = "raised"
    /\ \E id \in Ids : <<"get_workflow", id>> \in error_responses
    /\ DOMAIN workflows_metadata # {}
    /\ returned_mapping = NothingReturned

====
